---- MODULE Spec2Model ----
(***************************************************************************)
(* Model of src/app.py: the document chunking + embedding + similarity     *)
(* retrieval pipeline (load_documents_on_startup, get_embedding,           *)
(* find_relevant_chunks) and the /chat handler that uses it.               *)
(*                                                                         *)
(* Text is a sequence of tokens [ch, n]: n consecutive characters ch.      *)
(* "\n" and " " always come one per token, so splitting on "\n\n" and      *)
(* stripping whitespace act on tokens exactly as on characters; a token    *)
(* with n > 1 is a run of non-whitespace characters (the code never looks  *)
(* inside one).  None (an absent embedding) is the empty sequence.         *)
(***************************************************************************)
EXTENDS Integers, Sequences, FiniteSets, TLC

VARIABLES
    phase,          \* "startup" (module import, lines 133-134) or "serving"
    document_data,  \* the global store (line 62): Seq of [text, embedding]
    load,           \* load_documents_on_startup: position and locals
    req,            \* one /chat handler activation per request slot
    call            \* a single call of a function on drawn arguments

vars == <<phase, document_data, load, req, call>>

-----------------------------------------------------------------------------
(* Bounds *)

MaxTextLen  == 7    \* tokens of a drawn input text
MaxChars    == 4    \* largest max_chunk_chars drawn for the chunker alone
MaxStore    == 3    \* chunks of a drawn store
MaxK        == 4    \* largest num_results drawn
MaxFiles    == 1    \* files in the document directory

(* Program constants *)

max_chunk_chars == 1000
num_results     == 3

-----------------------------------------------------------------------------
(* Strings *)

NL == [ch |-> "\n", n |-> 1]
SP == [ch |-> " ", n |-> 1]
Run(c, k) == [ch |-> c, n |-> k]

IsSpace(t) == t.ch \in {"\n", " "}

RECURSIVE len(_)
len(s) == IF s = <<>> THEN 0 ELSE Head(s).n + len(Tail(s))

RECURSIVE lstrip(_)
lstrip(s) == IF s # <<>> /\ IsSpace(Head(s)) THEN lstrip(Tail(s)) ELSE s

RECURSIVE rstrip(_)
rstrip(s) ==
    IF s # <<>> /\ IsSpace(s[Len(s)]) THEN rstrip(SubSeq(s, 1, Len(s) - 1)) ELSE s

strip(s) == rstrip(lstrip(s))

\* str.split("\n\n"): left to right, non-overlapping, empty pieces kept
RECURSIVE split_from(_, _, _)
split_from(s, cur, out) ==
    IF s = <<>> THEN Append(out, cur)
    ELSE IF Len(s) >= 2 /\ s[1] = NL /\ s[2] = NL
         THEN split_from(SubSeq(s, 3, Len(s)), <<>>, Append(out, cur))
         ELSE split_from(Tail(s), Append(cur, Head(s)), out)

split(s) == split_from(s, <<>>, <<>>)

\* sep.join(parts)
RECURSIVE join(_, _)
join(sep, parts) ==
    IF parts = <<>> THEN <<>>
    ELSE IF Len(parts) = 1 THEN parts[1]
    ELSE parts[1] \o sep \o join(sep, Tail(parts))

-----------------------------------------------------------------------------
(* load_documents_on_startup, lines 100-115: paragraphs and chunks *)

\* line 100
paragraphs_of(all_raw_text) ==
    LET pieces == SelectSeq(split(all_raw_text), LAMBDA p : strip(p) # <<>>)
    IN  [i \in 1..Len(pieces) |-> strip(pieces[i])]

\* lines 101-104; chunk_parts records, for each element of final_chunks, the
\* current_chunk_parts it was joined from
PackInit ==
    [final_chunks |-> <<>>, chunk_parts |-> <<>>,
     current_chunk_parts |-> <<>>, current_chunk_len |-> 0]

\* lines 107-108 and 114-115
Flush(st) ==
    IF st.current_chunk_parts # <<>>
    THEN [st EXCEPT !.final_chunks = Append(@, join(<<NL>>, st.current_chunk_parts)),
                    !.chunk_parts  = Append(@, st.current_chunk_parts)]
    ELSE st

\* the flush that starts the next buffer empty: the paragraph is lost
PackStepDropsParagraph(st, paragraph, max) ==
    IF st.current_chunk_len + len(paragraph) + Len(st.current_chunk_parts) + 1 > max
    THEN [Flush(st) EXCEPT !.current_chunk_parts = <<>>,
                           !.current_chunk_len   = 0]
    ELSE [st EXCEPT !.current_chunk_parts = Append(@, paragraph),
                    !.current_chunk_len   = @ + len(paragraph)]

\* the test that forgets the separators
PackStepNoSeparators(st, paragraph, max) ==
    IF st.current_chunk_len + len(paragraph) > max
    THEN [Flush(st) EXCEPT !.current_chunk_parts = <<paragraph>>,
                           !.current_chunk_len   = len(paragraph)]
    ELSE [st EXCEPT !.current_chunk_parts = Append(@, paragraph),
                    !.current_chunk_len   = @ + len(paragraph)]

\* lines 106-113: one iteration of the loop
PackStep(st, paragraph, max) ==
    IF st.current_chunk_len + len(paragraph) + Len(st.current_chunk_parts) + 1 > max
    THEN [Flush(st) EXCEPT !.current_chunk_parts = <<paragraph>>,
                           !.current_chunk_len   = len(paragraph)]
    ELSE [st EXCEPT !.current_chunk_parts = Append(@, paragraph),
                    !.current_chunk_len   = @ + len(paragraph)]

\* lines 105-115
RECURSIVE PackLoop(_, _, _)
PackLoop(st, paragraphs, max) ==
    IF paragraphs = <<>> THEN Flush(st)
    ELSE PackLoop(PackStep(st, Head(paragraphs), max), Tail(paragraphs), max)

Chunker(paragraphs, max) == PackLoop(PackInit, paragraphs, max)

-----------------------------------------------------------------------------
(* Embeddings and find_relevant_chunks, lines 75-84 *)

None == <<>>

ServiceEmbeddings == {<<1, 0>>, <<0, 1>>}
Vectors == ServiceEmbeddings \cup {<<1, 1>>}

\* np.dot of two vectors of the same dimension
RECURSIVE dot(_, _)
dot(u, v) == IF u = <<>> THEN 0 ELSE Head(u) * Head(v) + dot(Tail(u), Tail(v))

\* lines 78-82
RECURSIVE Similarities(_, _)
Similarities(store, query_embedding) ==
    IF store = <<>> THEN <<>>
    ELSE LET doc_chunk == Head(store)
             rest == Similarities(Tail(store), query_embedding)
         IN  IF doc_chunk.embedding # None
             THEN <<[score |-> dot(query_embedding, doc_chunk.embedding),
                     text  |-> doc_chunk.text]>> \o rest
             ELSE rest

\* x goes after every element whose key is at least its own
RECURSIVE InsertDesc(_, _)
InsertDesc(sorted, x) ==
    IF sorted = <<>> THEN <<x>>
    ELSE IF Head(sorted).score >= x.score
         THEN <<Head(sorted)>> \o InsertDesc(Tail(sorted), x)
         ELSE <<x>> \o sorted

RECURSIVE InsertAll(_, _)
InsertAll(sorted, s) ==
    IF s = <<>> THEN sorted ELSE InsertAll(InsertDesc(sorted, Head(s)), Tail(s))

\* x goes before every element whose key is at most its own
RECURSIVE InsertDescTiesFirst(_, _)
InsertDescTiesFirst(sorted, x) ==
    IF sorted = <<>> THEN <<x>>
    ELSE IF Head(sorted).score > x.score
         THEN <<Head(sorted)>> \o InsertDescTiesFirst(Tail(sorted), x)
         ELSE <<x>> \o sorted

RECURSIVE InsertAllTiesFirst(_, _)
InsertAllTiesFirst(sorted, s) ==
    IF s = <<>> THEN sorted
    ELSE InsertAllTiesFirst(InsertDescTiesFirst(sorted, Head(s)), Tail(s))

\* a descending sort that reverses the order of equal keys
sort_reverse_unstable(similarities) == InsertAllTiesFirst(<<>>, similarities)

\* line 83: list.sort(key=score, reverse=True); list.sort is stable and
\* reverse=True keeps the original order of equal keys
sort_reverse(similarities) == InsertAll(<<>>, similarities)

\* similarities[i] for i in range(k): IndexError past the end
slice_to_indexed(s, k) ==
    IF k > Len(s) THEN [raised |-> TRUE, value |-> <<>>]
    ELSE [raised |-> FALSE, value |-> SubSeq(s, 1, k)]

\* line 84: s[:k] for k >= 0
slice_to(s, k) ==
    [raised |-> FALSE, value |-> SubSeq(s, 1, IF k < Len(s) THEN k ELSE Len(s))]

\* lines 75-84, reading the global document_data
find_relevant_chunks(store, query_embedding, k) ==
    IF store = <<>> \/ query_embedding = None
    THEN [raised |-> FALSE, value |-> <<>>]
    ELSE LET top == slice_to(sort_reverse(Similarities(store, query_embedding)), k)
         IN  [raised |-> top.raised,
              value  |-> [i \in 1..Len(top.value) |-> top.value[i].text]]

-----------------------------------------------------------------------------
(* The external services: a call either returns a value or raises *)

EmbedOutcomes ==
    {[ok |-> TRUE, embedding |-> e] : e \in ServiceEmbeddings}
        \cup {[ok |-> FALSE, embedding |-> None]}

AnswerText == "answer"
ErrorText  == "Error communicating with AI. Please try again."
NoMessageText == "Error: No message provided."
UnhandledText == "Internal Server Error"

GenerateOutcomes == {[ok |-> TRUE, text |-> AnswerText], [ok |-> FALSE, text |-> ""]}

\* genai.embed_content called with no try around it
get_embedding_uncaught(outcome) ==
    [raised |-> ~outcome.ok, value |-> outcome.embedding]

\* lines 64-73
get_embedding(outcome) ==
    [raised |-> FALSE, value |-> IF outcome.ok THEN outcome.embedding ELSE None]

-----------------------------------------------------------------------------
(* load_documents_on_startup, lines 86-131 *)

DocCats  == <<Run("c", 17), NL, NL, Run("d", 21)>>
DocEdge  == <<Run("x", 499), NL, NL, Run("y", 500)>>
DocBlank == <<SP, NL>>

Files ==
    {[readable |-> TRUE, content |-> c] : c \in {DocCats, DocEdge, DocBlank}}
        \cup {[readable |-> FALSE, content |-> <<>>]}
FileLists == UNION {[1..n -> Files] : n \in 0..MaxFiles}

\* lines 89-96: an unreadable file is skipped
RECURSIVE read_all(_)
read_all(files) ==
    IF files = <<>> THEN <<>>
    ELSE (IF Head(files).readable THEN Head(files).content \o <<NL, NL>> ELSE <<>>)
             \o read_all(Tail(files))

\* the append written after the try block: a failed chunk is stored too
embed_chunk_outside_try(store, chunk_text, outcome) ==
    Append(store, [text |-> chunk_text, embedding |-> outcome.embedding])

\* lines 118-130, one chunk
embed_chunk(store, chunk_text, outcome) ==
    IF outcome.ok
    THEN Append(store, [text |-> chunk_text, embedding |-> outcome.embedding])
    ELSE store

LoadIdle ==
    [pc |-> "idle", all_raw_text |-> <<>>, final_chunks |-> <<>>, i |-> 0,
     answered |-> FALSE, ok |-> <<>>, prev_len |-> 0]

\* lines 87-119: up to the first embed_content call, or the return of line 99.
\* The function is called at line 134 and may be called again before the
\* routes are served; prev_len records the size of the store the run found.
LoadStart(files) ==
    /\ phase = "startup"
    /\ load.pc \in {"idle", "loaded"}
    /\ document_data' = <<>>
    /\ LET all_raw_text == read_all(files)
           final_chunks ==
               IF strip(all_raw_text) = <<>> THEN <<>>
               ELSE Chunker(paragraphs_of(all_raw_text), max_chunk_chars).final_chunks
       IN  load' = [pc |-> IF final_chunks = <<>> THEN "loaded" ELSE "embedding",
                    all_raw_text |-> all_raw_text,
                    final_chunks |-> final_chunks,
                    i |-> 1, answered |-> FALSE, ok |-> <<>>,
                    prev_len |-> Len(document_data)]
    /\ UNCHANGED <<phase, req, call>>

\* the embedding service answers the pending embed_content call of line 119
EmbedServiceAnswersLoad ==
    /\ load.pc = "embedding" /\ ~load.answered
    /\ load' = [load EXCEPT !.answered = TRUE]
    /\ UNCHANGED <<phase, document_data, req, call>>

\* lines 119-131: the call returns or raises; next chunk, or the end of the loop
LoadEmbedReturns ==
    /\ load.pc = "embedding" /\ load.answered
    /\ \E outcome \in EmbedOutcomes :
          /\ document_data' = embed_chunk(document_data, load.final_chunks[load.i], outcome)
          /\ load' = [load EXCEPT !.ok = Append(@, outcome.ok),
                                  !.i = @ + 1,
                                  !.answered = FALSE,
                                  !.pc = IF load.i = Len(load.final_chunks)
                                         THEN "loaded" ELSE "embedding"]
    /\ UNCHANGED <<phase, req, call>>

\* line 134 returns: the locals are gone and the routes are served
StartServing ==
    /\ phase = "startup" /\ load.pc = "loaded"
    /\ phase' = "serving"
    /\ load' = [LoadIdle EXCEPT !.pc = "returned"]
    /\ UNCHANGED <<document_data, req, call>>

-----------------------------------------------------------------------------
(* /chat, lines 185-221 *)

Req == {"r1", "r2"}
Messages == {"", "hello"}

NoPrompt == [background |-> FALSE, combined_context |-> <<>>,
             instructions |-> FALSE, user_question |-> ""]
NoResponse == [status |-> 0, text |-> ""]

ReqIdle ==
    [pc |-> "idle", user_message |-> "", answered |-> FALSE,
     user_query_embedding |-> None, retrieved_context |-> <<>>,
     full_prompt |-> NoPrompt, generated |-> "none", response |-> NoResponse]

ContextSep == <<NL, Run("-", 3), NL>>

\* the background section written whatever was retrieved
compose_always_background(retrieved_context, user_message) ==
    [background |-> TRUE, combined_context |-> join(ContextSep, retrieved_context),
     instructions |-> TRUE, user_question |-> user_message]

\* lines 198-212
compose(retrieved_context, user_message) ==
    IF retrieved_context # <<>>
    THEN [background |-> TRUE,
          combined_context |-> join(ContextSep, retrieved_context),
          instructions |-> TRUE, user_question |-> user_message]
    ELSE [background |-> FALSE, combined_context |-> <<>>,
          instructions |-> FALSE, user_question |-> user_message]

Unhandled(q) ==
    [q EXCEPT !.pc = "done", !.response = [status |-> 500, text |-> UnhandledText]]

\* lines 188-194, and 198-215 when the store is empty
ChatReceive(r, user_message) ==
    /\ phase = "serving"
    /\ req[r].pc = "idle"
    /\ req' = [req EXCEPT ![r] =
          IF user_message = ""
          THEN [@ EXCEPT !.pc = "done",
                         !.response = [status |-> 400, text |-> NoMessageText]]
          ELSE IF document_data # <<>>
          THEN [@ EXCEPT !.pc = "await_embed", !.user_message = user_message,
                         !.answered = FALSE]
          ELSE [@ EXCEPT !.pc = "await_generate", !.user_message = user_message,
                         !.answered = FALSE,
                         !.full_prompt = compose(<<>>, user_message)]]
    /\ UNCHANGED <<phase, document_data, load, call>>

\* a service answers the call the handler is waiting on
ServiceAnswersChat(r) ==
    /\ req[r].pc \in {"await_embed", "await_generate"} /\ ~req[r].answered
    /\ req' = [req EXCEPT ![r].answered = TRUE]
    /\ UNCHANGED <<phase, document_data, load, call>>

\* the store sorted in place by the retrieval
ChatEmbedReturnsSortsStore(r) ==
    /\ req[r].pc = "await_embed" /\ req[r].answered
    /\ \E outcome \in EmbedOutcomes :
          LET e == get_embedding(outcome)
              found == find_relevant_chunks(document_data, e.value, num_results)
          IN  /\ req' = [req EXCEPT ![r] =
                    [@ EXCEPT !.pc = "await_generate", !.answered = FALSE,
                              !.user_query_embedding = e.value,
                              !.retrieved_context = found.value,
                              !.full_prompt = compose(found.value, req[r].user_message)]]
              /\ document_data' =
                    IF e.value = None THEN document_data
                    ELSE LET ranked == sort_reverse(
                                 [i \in 1..Len(document_data) |->
                                     [score |-> dot(e.value, document_data[i].embedding),
                                      text |-> document_data[i].text,
                                      embedding |-> document_data[i].embedding]])
                         IN  [i \in 1..Len(ranked) |->
                                 [text |-> ranked[i].text,
                                  embedding |-> ranked[i].embedding]]
    /\ UNCHANGED <<phase, load, call>>

\* lines 194-215: get_embedding returns, retrieval, prompt, generate_content called
ChatEmbedReturns(r) ==
    /\ req[r].pc = "await_embed" /\ req[r].answered
    /\ \E outcome \in EmbedOutcomes :
          LET e == get_embedding(outcome)
              found == IF e.raised \/ e.value = None
                       THEN [raised |-> FALSE, value |-> <<>>]
                       ELSE find_relevant_chunks(document_data, e.value, num_results)
          IN  req' = [req EXCEPT ![r] =
                 IF e.raised \/ found.raised THEN Unhandled(@)
                 ELSE [@ EXCEPT !.pc = "await_generate", !.answered = FALSE,
                                !.user_query_embedding = e.value,
                                !.retrieved_context = found.value,
                                !.full_prompt = compose(found.value, req[r].user_message)]]
    /\ UNCHANGED <<phase, document_data, load, call>>

\* lines 214-221
ChatGenerateReturns(r) ==
    /\ req[r].pc = "await_generate" /\ req[r].answered
    /\ \E outcome \in GenerateOutcomes :
          req' = [req EXCEPT ![r] =
             [@ EXCEPT !.pc = "done", !.answered = FALSE,
                       !.generated = IF outcome.ok THEN "ok" ELSE "error",
                       !.response = [status |-> 200,
                                     text |-> IF outcome.ok THEN outcome.text
                                              ELSE ErrorText]]]
    /\ UNCHANGED <<phase, document_data, load, call>>

\* the response is sent; the slot takes a later request
ChatClose(r) ==
    /\ req[r].pc = "done"
    /\ req' = [req EXCEPT ![r] = ReqIdle]
    /\ UNCHANGED <<phase, document_data, load, call>>

-----------------------------------------------------------------------------
(* The service *)

NoCall == [fn |-> "none"]

Init ==
    /\ phase = "startup"
    /\ document_data = <<>>
    /\ load = LoadIdle
    /\ req = [r \in Req |-> ReqIdle]
    /\ call = NoCall

Next ==
    \/ \E files \in FileLists : LoadStart(files)
    \/ EmbedServiceAnswersLoad
    \/ LoadEmbedReturns
    \/ StartServing
    \/ \E r \in Req, m \in Messages : ChatReceive(r, m)
    \/ \E r \in Req : ServiceAnswersChat(r)
    \/ \E r \in Req : ChatEmbedReturns(r)
    \/ \E r \in Req : ChatGenerateReturns(r)
    \/ \E r \in Req : ChatClose(r)

Spec == Init /\ [][Next]_vars

\* the program takes its own steps; nothing obliges a service to answer
Fairness ==
    /\ WF_vars(LoadEmbedReturns)
    /\ WF_vars(StartServing)
    /\ \A r \in Req : WF_vars(ChatEmbedReturns(r))
    /\ \A r \in Req : WF_vars(ChatGenerateReturns(r))
    /\ \A r \in Req : WF_vars(ChatClose(r))

FairSpec == Spec /\ Fairness

-----------------------------------------------------------------------------
(* The chunker alone, on every text up to MaxTextLen tokens *)

Alphabet == {NL, SP, Run("a", 1), Run("b", 5)}
Texts == UNION {[1..n -> Alphabet] : n \in 0..MaxTextLen}

ChunkInit ==
    /\ phase = "startup"
    /\ document_data = <<>>
    /\ load = LoadIdle
    /\ req = [r \in Req |-> ReqIdle]
    /\ \E t \in Texts, m \in 1..MaxChars :
          call = [fn |-> "chunk", done |-> FALSE, all_raw_text |-> t, max |-> m,
                  paragraphs |-> <<>>, final_chunks |-> <<>>, chunk_parts |-> <<>>]

ChunkCall ==
    /\ call.fn = "chunk" /\ ~call.done
    /\ LET ps == paragraphs_of(call.all_raw_text)
           st == Chunker(ps, call.max)
       IN  call' = [call EXCEPT !.done = TRUE, !.paragraphs = ps,
                                !.final_chunks = st.final_chunks,
                                !.chunk_parts = st.chunk_parts]
    /\ UNCHANGED <<phase, document_data, load, req>>

ChunkSpec == ChunkInit /\ [][ChunkCall]_vars

-----------------------------------------------------------------------------
(* Properties of the chunker (ChunkSpec) *)

RECURSIVE Flatten(_)
Flatten(ss) == IF ss = <<>> THEN <<>> ELSE Head(ss) \o Flatten(Tail(ss))

NonSpace(s) == SelectSeq(s, LAMBDA t : ~IsSpace(t))

ChunkDone == call.fn = "chunk" /\ call.done

\* C1: every chunk is non-empty, and the paragraphs of the chunks, listed in
\* chunk order, are exactly the non-empty trimmed paragraphs of the input,
\* each once and in order; no non-whitespace character is lost or repeated.
C1_NothingLostOrDuplicated ==
    ChunkDone =>
        /\ Len(call.chunk_parts) = Len(call.final_chunks)
        /\ \A c \in DOMAIN call.final_chunks :
              /\ call.final_chunks[c] # <<>>
              /\ call.chunk_parts[c] # <<>>
              /\ call.final_chunks[c] = join(<<NL>>, call.chunk_parts[c])
        /\ Flatten(call.chunk_parts) = call.paragraphs
        /\ \A p \in DOMAIN call.paragraphs :
              /\ call.paragraphs[p] # <<>>
              /\ strip(call.paragraphs[p]) = call.paragraphs[p]
        /\ join(<<NL>>, call.final_chunks) = join(<<NL>>, call.paragraphs)
        /\ NonSpace(Flatten(call.final_chunks)) = NonSpace(call.all_raw_text)

C1_Witness ==
    /\ ChunkDone
    /\ Len(call.final_chunks) >= 2
    /\ \E c \in DOMAIN call.chunk_parts : Len(call.chunk_parts[c]) >= 2

\* C2: a chunk of more than one paragraph has a newline-joined length of at
\* most max_chunk_chars; a chunk longer than max_chunk_chars is exactly one
\* paragraph, itself longer than max_chunk_chars, kept whole.
C2_ChunkSizeBound ==
    ChunkDone =>
        \A c \in DOMAIN call.final_chunks :
            /\ Len(call.chunk_parts[c]) > 1 => len(call.final_chunks[c]) <= call.max
            /\ len(call.final_chunks[c]) > call.max =>
                  /\ Len(call.chunk_parts[c]) = 1
                  /\ len(call.chunk_parts[c][1]) > call.max
                  /\ call.final_chunks[c] = call.chunk_parts[c][1]

C2_Witness ==
    /\ ChunkDone
    /\ \E c \in DOMAIN call.final_chunks : len(call.final_chunks[c]) > call.max
    /\ \E c \in DOMAIN call.final_chunks : Len(call.chunk_parts[c]) > 1

\* C9: the buffer is flushed before a paragraph only when the buffer joined
\* with that paragraph by one newline would exceed max_chunk_chars; so
\* paragraphs that fit max_chunk_chars when joined make exactly one chunk.
C9_TightPacking ==
    ChunkDone =>
        /\ \A c \in 2..Len(call.final_chunks) :
              len(call.final_chunks[c - 1]) + 1 + len(call.chunk_parts[c][1]) > call.max
        /\ (call.paragraphs # <<>> /\ len(join(<<NL>>, call.paragraphs)) <= call.max)
              => Len(call.final_chunks) = 1

-----------------------------------------------------------------------------
(* find_relevant_chunks alone, on every store up to MaxStore chunks *)

StoreTexts == {<<Run("a", 1)>>, <<Run("b", 1)>>}
Chunks == [text : StoreTexts, embedding : Vectors]
Stores == UNION {[1..n -> Chunks] : n \in 0..MaxStore}

RetrieveInit ==
    /\ phase = "serving"
    /\ document_data \in Stores
    /\ load = LoadIdle
    /\ req = [r \in Req |-> ReqIdle]
    /\ \E q \in Vectors \cup {None}, k \in 0..MaxK :
          call = [fn |-> "retrieve", done |-> FALSE, query_embedding |-> q,
                  k |-> k, raised |-> FALSE, result |-> <<>>]

RetrieveCall ==
    /\ call.fn = "retrieve" /\ ~call.done
    /\ LET r == find_relevant_chunks(document_data, call.query_embedding, call.k)
       IN  call' = [call EXCEPT !.done = TRUE, !.raised = r.raised,
                                !.result = r.value]
    /\ UNCHANGED <<phase, document_data, load, req>>

RetrieveSpec == RetrieveInit /\ [][RetrieveCall]_vars

-----------------------------------------------------------------------------
(* Properties of find_relevant_chunks (RetrieveSpec) *)

RetrieveDone == call.fn = "retrieve" /\ call.done

Score(i) == dot(call.query_embedding, document_data[i].embedding)
Before(i, j) == Score(i) > Score(j) \/ (Score(i) = Score(j) /\ i < j)
RankOf(i) == 1 + Cardinality({j \in DOMAIN document_data : Before(j, i)})
Count(s, x) == Cardinality({i \in DOMAIN s : s[i] = x})

\* C3: the result lists the texts of the stored chunks by non-increasing
\* similarity, chunks of equal similarity in store order, cut to the first k;
\* with k = 1 it is exactly the text of the highest-similarity chunk.
C3_StableRanking ==
    (RetrieveDone /\ call.query_embedding # None) =>
        /\ Len(call.result) =
              (IF call.k < Len(document_data) THEN call.k ELSE Len(document_data))
        /\ \A i \in DOMAIN document_data :
              RankOf(i) <= call.k => call.result[RankOf(i)] = document_data[i].text
        /\ (call.k = 1 /\ document_data # <<>>) =>
              \E i \in DOMAIN document_data :
                  /\ \A j \in DOMAIN document_data : Score(i) >= Score(j)
                  /\ call.result = <<document_data[i].text>>

C3_Witness ==
    /\ RetrieveDone /\ call.query_embedding # None
    /\ call.k < Len(document_data)
    /\ \E i, j \in DOMAIN document_data :
          /\ i < j /\ Score(i) = Score(j) /\ RankOf(j) <= call.k
          /\ document_data[i].text # document_data[j].text
    /\ \E i, j \in DOMAIN document_data : Score(i) < Score(j) /\ i < j

\* C4: the call never raises; with k above the number of stored chunks the
\* result holds the text of every stored chunk once, ranked; on an empty
\* store or with an absent query embedding the result is empty.
C4_NeverFailsOnSize ==
    RetrieveDone =>
        /\ ~call.raised
        /\ (document_data = <<>> \/ call.query_embedding = None) => call.result = <<>>
        /\ (call.query_embedding # None /\ call.k > Len(document_data)) =>
              /\ Len(call.result) = Len(document_data)
              /\ \A t \in StoreTexts :
                    Count(call.result, t)
                        = Count([i \in DOMAIN document_data |-> document_data[i].text], t)
              /\ \A i \in DOMAIN document_data :
                    call.result[RankOf(i)] = document_data[i].text

C4_Witness ==
    /\ RetrieveDone /\ call.query_embedding # None
    /\ Len(document_data) >= 2 /\ call.k > Len(document_data)
    /\ \A t \in StoreTexts : Count(call.result, t) > 0

-----------------------------------------------------------------------------
(* Properties of the service (Spec, FairSpec) *)

RECURSIVE Succeeded(_, _)
Succeeded(chunks, ok) ==
    IF ok = <<>> THEN <<>>
    ELSE (IF Head(ok) THEN <<Head(chunks)>> ELSE <<>>)
             \o Succeeded(Tail(chunks), Tail(ok))

TextsOf(store) == [i \in DOMAIN store |-> store[i].text]

\* C5: during and after a run of load_documents_on_startup the store is
\* exactly the chunks of this run whose embedding call succeeded, in order,
\* each with a present embedding; at the end of the run every chunk has had
\* its embedding call, whatever failed before it and whatever the store held.
C5_StoreIsThisRunsEmbeddedChunks ==
    /\ \A i \in DOMAIN document_data : document_data[i].embedding # None
    /\ load.pc \in {"embedding", "loaded"} =>
          TextsOf(document_data) = Succeeded(load.final_chunks, load.ok)
    /\ load.pc = "embedding" => Len(load.ok) = load.i - 1
    /\ load.pc = "loaded" =>
          /\ Len(load.ok) = Len(load.final_chunks)
          /\ (\A i \in DOMAIN load.ok : ~load.ok[i]) => document_data = <<>>

C5_Witness ==
    /\ load.pc = "loaded"
    /\ load.prev_len > 0
    /\ \E i, j \in DOMAIN load.ok : i < j /\ ~load.ok[i] /\ load.ok[j]

Composed(r) ==
    \/ req[r].pc = "await_generate"
    \/ req[r].pc = "done" /\ req[r].generated # "none"

\* C6: the prompt has the background section and the instruction block
\* exactly when the retrieved context is non-empty; with an empty store or a
\* failed query embedding it has neither, it carries the user's question,
\* and a successful generation is answered with status 200 and its text.
C6_BackgroundIffContext ==
    \A r \in Req :
        /\ Composed(r) =>
              /\ req[r].full_prompt.background <=> req[r].retrieved_context # <<>>
              /\ req[r].full_prompt.instructions <=> req[r].retrieved_context # <<>>
              /\ req[r].full_prompt.background =>
                    req[r].full_prompt.combined_context
                        = join(ContextSep, req[r].retrieved_context)
              /\ req[r].full_prompt.user_question = req[r].user_message
              /\ (document_data = <<>> \/ req[r].user_query_embedding = None) =>
                    /\ ~req[r].full_prompt.background
                    /\ ~req[r].full_prompt.instructions
              /\ (document_data # <<>> /\ req[r].user_query_embedding # None) =>
                    req[r].full_prompt.background
        /\ (req[r].pc = "done" /\ req[r].generated = "ok") =>
              req[r].response = [status |-> 200, text |-> AnswerText]

C6_Witness ==
    \E r, s \in Req :
        /\ req[r].pc = "done" /\ req[r].generated = "ok"
        /\ document_data # <<>> /\ req[r].user_query_embedding = None
        /\ ~req[r].full_prompt.background
        /\ req[s].pc = "await_generate" /\ req[s].full_prompt.background

\* C7: no failure of the embedding or generation call escapes the handler:
\* a request with a message always ends with one complete 200 response, the
\* error string when generation failed, and is never answered as unhandled.
C7_FailuresCaught ==
    \A r \in Req :
        /\ req[r].pc \in {"idle", "await_embed", "await_generate", "done"}
        /\ req[r].response.status # 500
        /\ (req[r].pc = "done" /\ req[r].user_message # "") =>
              /\ req[r].response.status = 200
              /\ req[r].generated \in {"ok", "error"}
              /\ req[r].generated = "error" => req[r].response.text = ErrorText
              /\ req[r].generated = "ok" => req[r].response.text = AnswerText
        /\ req[r].pc # "done" => req[r].response = NoResponse

C7_Witness ==
    \E r, s \in Req :
        /\ req[r].pc = "done" /\ req[r].generated = "error"
        /\ document_data # <<>> /\ req[r].user_query_embedding = None
        /\ req[s].pc = "done" /\ req[s].generated = "ok"

\* C8: no operation blocks indefinitely: startup ingestion eventually
\* completes and every /chat request eventually receives a response, even if
\* a service never answers.
C8_NoIndefiniteBlocking ==
    /\ (load.pc = "embedding") ~> (load.pc = "loaded")
    /\ \A r \in Req :
          (req[r].pc \in {"await_embed", "await_generate"}) ~> (req[r].pc = "done")

AloneContext(r) ==
    find_relevant_chunks(document_data, req[r].user_query_embedding, num_results).value

\* C10: once the service is serving, no step changes the store, and the
\* context a request retrieved is what retrieval on the store gives for its
\* query alone, whatever the other requests did in between.
C10_StoreReadOnly ==
    /\ [][phase = "serving" => document_data' = document_data]_vars
    /\ [](\A r \in Req :
             Composed(r) => req[r].retrieved_context = AloneContext(r))

C10_Witness ==
    \E r, s \in Req :
        /\ req[r].pc = "await_generate" /\ req[s].pc = "await_generate"
        /\ req[r].retrieved_context # <<>> /\ req[s].retrieved_context # <<>>
        /\ req[r].retrieved_context # req[s].retrieved_context

====
